---- MODULE Spec2Model ----
(***************************************************************************)
(* Offline bookmark queue of the Turbodoc browser extension: the persisted *)
(* queue (StorageManager), the remote API client (TurbodocAPI), the popup  *)
(* and context-menu save handlers, and the background reconciler           *)
(* (TurbodocBackground.processOfflineQueue) with its triggers.             *)
(*                                                                         *)
(* Every `await` on storage or network is a point where another handler    *)
(* of the same context, or the other context, may run; each action below   *)
(* is one such atomic segment.                                             *)
(***************************************************************************)
EXTENDS Integers, Sequences, FiniteSets, TLC

\* ---------------------------------------------------------------- bounds
MaxPasses  == 1  \* processOfflineQueue executions in flight under Spec
MaxOverlap == 2  \* processOfflineQueue executions in flight under OverlapSpec
MaxSavers  == 1  \* save handlers (popup or context menu) in flight
MaxQueue   == 2  \* longest queue a save handler still appends to
MaxClock   == 1  \* Date.now() ranges over 0..MaxClock
RandRes   == 2   \* Math.random() ranges over RandRes distinct values
MaxInitCalls == 2      \* init() executions in flight on one instance
MaxRegistrations == 3  \* registrations of one kind that are counted

Null == "null"

\* ------------------------------------------------- strings as characters
\* JavaScript strings are modelled as sequences of characters so that
\* String.prototype.includes is computed, not assumed.
UNAUTHORIZED ==
  <<"U","N","A","U","T","H","O","R","I","Z","E","D">>
FORBIDDEN ==
  <<"F","O","R","B","I","D","D","E","N">>
NOT_FOUND ==
  <<"N","O","T","_","F","O","U","N","D">>
SERVER_ERROR ==
  <<"S","E","R","V","E","R","_","E","R","R","O","R">>
NETWORK_ERROR ==
  <<"N","E","T","W","O","R","K","_","E","R","R","O","R">>
TIMEOUT ==
  <<"T","I","M","E","O","U","T">>
MsgUnauthorized ==
  <<"P","l","e","a","s","e"," ","s","i","g","n"," ","i","n"," ","t","o"," ","c","o","n","t","i","n","u","e">>
MsgForbidden ==
  <<"A","c","c","e","s","s"," ","d","e","n","i","e","d">>
MsgNotFound ==
  <<"R","e","s","o","u","r","c","e"," ","n","o","t"," ","f","o","u","n","d">>
MsgServerError ==
  <<"S","e","r","v","e","r"," ","e","r","r","o","r","."," ","P","l","e","a","s","e"," ","t","r","y"," ","a","g","a","i","n"," ","l","a","t","e","r">>
MsgNetworkError ==
  <<"N","e","t","w","o","r","k"," ","e","r","r","o","r","."," ","P","l","e","a","s","e"," ","c","h","e","c","k"," ","y","o","u","r"," ","c","o","n","n","e","c","t","i","o","n">>
MsgTimeout ==
  <<"R","e","q","u","e","s","t"," ","t","i","m","e","o","u","t","."," ","P","l","e","a","s","e"," ","t","r","y"," ","a","g","a","i","n">>
MsgUnexpected ==
  <<"A","n"," ","u","n","e","x","p","e","c","t","e","d"," ","e","r","r","o","r"," ","o","c","c","u","r","r","e","d">>
MsgNotAuthenticated ==
  <<"U","s","e","r"," ","n","o","t"," ","a","u","t","h","e","n","t","i","c","a","t","e","d">>
StrNetwork ==
  <<"N","e","t","w","o","r","k">>
StrServer ==
  <<"S","e","r","v","e","r">>
StrFetch ==
  <<"f","e","t","c","h">>
StrHTTP ==
  <<"H","T","T","P"," ">>
ChromeFetchFailure ==
  <<"F","a","i","l","e","d"," ","t","o"," ","f","e","t","c","h">>
FirefoxFetchFailure ==
  <<"N","e","t","w","o","r","k","E","r","r","o","r"," ","w","h","e","n"," ","a","t","t","e","m","p","t","i","n","g"," ","t","o"," ","f","e","t","c","h"," ","r","e","s","o","u","r","c","e",".">>
BodyInvalidUrl ==
  <<"I","n","v","a","l","i","d"," ","U","R","L">>
BodyServerRejected ==
  <<"S","e","r","v","e","r"," ","r","e","j","e","c","t","e","d"," ","t","h","e"," ","b","o","o","k","m","a","r","k">>

\* String.prototype.includes
Includes(s, sub) ==
  \E k \in 0..(Len(s) - Len(sub)) : SubSeq(s, k + 1, k + Len(sub)) = sub

DigitChar(d) ==
  <<"0","1","2","3","4","5","6","7","8","9">>[d + 1]

\* Number.prototype.toString for a non-negative integer
RECURSIVE NumToString(_)
NumToString(n) ==
  IF n < 10 THEN <<DigitChar(n)>>
  ELSE NumToString(n \div 10) \o <<DigitChar(n % 10)>>

\* ------------------------------------------------------ remote API client
\* What fetch() can produce: a response with a status and the `message` of
\* its JSON body (<<>> when the body has none), or a thrown error.
Response(status, message) ==
  [t |-> "response", status |-> status, name |-> Null, message |-> message]

Thrown(name, message) ==
  [t |-> "throw", status |-> 0, name |-> name, message |-> message]

FetchOutcomes ==
  {Response(200, <<>>)}
    \cup {Response(s, <<>>) : s \in {401, 403, 404, 500}}
    \cup {Response(400, b) : b \in {<<>>, BodyInvalidUrl, BodyServerRejected}}
    \cup {Thrown("TypeError", m) : m \in {ChromeFetchFailure, FirefoxFetchFailure}}

\* A device that reports offline cannot complete a fetch.
Possible(isOnline, outcome) ==
  isOnline \/ outcome.t = "throw"

NoSession == [present |-> FALSE, user |-> Null]

UserSession == [present |-> TRUE, user |-> "u1"]

Sessions == {NoSession, UserSession}

\* setSession that assigns this.session and leaves this.user signed in
setSessionKeepsUser(session) ==
  [session |-> session, user |-> UserSession.user]

\* setSession(session): this.session = session;
\* this.user = session?.user || null
setSession(session) ==
  [session |-> session,
   user    |-> IF session.present /\ session.user # Null
               THEN session.user ELSE Null]

isAuthenticated(a) ==
  a.session.present /\ a.user # Null

\* what `await this.supabase.auth.signOut()` does inside logout(): "none" is
\* a client whose init() failed (this.supabase is null, no call is made),
\* "error" a resolved { error }, "throw" a rejection
SignOutOutcomes == {"none", "ok", "error", "throw"}

\* logout with a catch block that reports the failure and leaves the local
\* session in place
logoutKeepsOnThrow(a, signOut) ==
  IF signOut = "throw"
  THEN [success |-> FALSE, api |-> a]
  ELSE [success |-> TRUE, api |-> setSession(NoSession)]

\* logout(): its result and the client's session and user afterwards.  The
\* try block ends with setSession(null) and { success: true }; the catch
\* block does the same.
logout(a, signOut) ==
  IF signOut = "throw"
  THEN [success |-> TRUE, api |-> setSession(NoSession)]
  ELSE [success |-> TRUE, api |-> setSession(NoSession)]

getErrorMessage(errorCode) ==
  CASE errorCode = UNAUTHORIZED  -> MsgUnauthorized
    [] errorCode = FORBIDDEN     -> MsgForbidden
    [] errorCode = NOT_FOUND     -> MsgNotFound
    [] errorCode = SERVER_ERROR  -> MsgServerError
    [] errorCode = NETWORK_ERROR -> MsgNetworkError
    [] errorCode = TIMEOUT       -> MsgTimeout
    [] OTHER -> IF errorCode # <<>> THEN errorCode ELSE MsgUnexpected

\* request(): [ok |-> TRUE] when the body is returned, otherwise the message
\* of the Error it throws.
request(outcome) ==
  IF outcome.t = "throw"
  THEN IF outcome.name = "TypeError" /\ Includes(outcome.message, StrFetch)
       THEN [ok |-> FALSE, error |-> NETWORK_ERROR]
       ELSE [ok |-> FALSE, error |-> outcome.message]
  ELSE IF outcome.status >= 200 /\ outcome.status <= 299
       THEN [ok |-> TRUE, error |-> <<>>]
       ELSE IF outcome.status = 401 THEN [ok |-> FALSE, error |-> UNAUTHORIZED]
       ELSE IF outcome.status = 403 THEN [ok |-> FALSE, error |-> FORBIDDEN]
       ELSE IF outcome.status = 404 THEN [ok |-> FALSE, error |-> NOT_FOUND]
       ELSE IF outcome.status >= 500 THEN [ok |-> FALSE, error |-> SERVER_ERROR]
       ELSE [ok |-> FALSE,
             error |-> IF outcome.message # <<>> THEN outcome.message
                       ELSE StrHTTP \o NumToString(outcome.status)]

\* createBookmark without `if (!this.user) throw ...`: the request is made
\* whoever is signed in
createBookmarkNoUserCheck(a, outcome) ==
  LET r == request(outcome)
  IN  IF r.ok THEN [success |-> TRUE, error |-> <<>>]
      ELSE [success |-> FALSE, error |-> getErrorMessage(r.error)]

\* createBookmark without its try/catch: what request() throws reaches the
\* caller as a thrown Error
createBookmarkNoCatch(a, outcome) ==
  IF a.user = Null
  THEN Thrown("Error", MsgNotAuthenticated)
  ELSE LET r == request(outcome)
       IN  IF r.ok THEN [success |-> TRUE, error |-> <<>>]
           ELSE Thrown("Error", r.error)

\* createBookmark(): always a result value; no fetch without a user.
createBookmark(a, outcome) ==
  IF a.user = Null
  THEN [success |-> FALSE, error |-> getErrorMessage(MsgNotAuthenticated)]
  ELSE LET r == request(outcome)
       IN  IF r.ok THEN [success |-> TRUE, error |-> <<>>]
           ELSE [success |-> FALSE, error |-> getErrorMessage(r.error)]

\* createNote(): the method is called by the popup and is not among the
\* source files; the remote API contract gives it the result and the
\* failure kinds of createBookmark.
createNote(a, outcome) ==
  IF a.user = Null
  THEN [success |-> FALSE, error |-> MsgNotAuthenticated]
  ELSE LET r == request(outcome)
       IN  [success |-> r.ok,
            error   |-> IF r.ok THEN <<>> ELSE getErrorMessage(r.error)]

\* The save handlers' test for "keep it for later".
ShouldQueue(result) ==
  Includes(result.error, StrNetwork) \/ Includes(result.error, StrServer)

\* ---------------------------------------------------------- offline queue
Titles == {"Foo"}

\* payloads by shape: a bookmark ({title, url, tags, contentType}) or a
\* note ({title, content})
BookmarkData == [type : {"bookmark"}, title : Titles]

NoteData == [type : {"note"}, title : Titles]

NoData == [type |-> Null, title |-> Null]

\* { ...bookmarkData, id: Date.now() + Math.random(), queuedAt: Date.now() }
\* with the fraction Math.random() taken in units of 1/RandRes.
QueueEntry(data, now, rnd) ==
  [data |-> data, id |-> now * RandRes + rnd, queuedAt |-> now]

\* queue.unshift(entry) in place of queue.push(entry)
PushFront(q, data, now, rnd) ==
  <<QueueEntry(data, now, rnd)>> \o q

\* queue.push(entry)
PushEntry(q, data, now, rnd) ==
  Append(q, QueueEntry(data, now, rnd))

\* queue.filter(item => item.id !== itemId)
FilterOut(q, itemId) ==
  SelectSeq(q, LAMBDA item : item.id # itemId)

\* getOfflineQueue(): `ok` false is storage.local.get throwing
getOfflineQueue(stored, ok) ==
  [success |-> ok, data |-> IF ok THEN stored ELSE <<>>]

Elems(q) == {q[k] : k \in 1..Len(q)}

\* clearOfflineQueue that reports success and leaves the key in place
clearOfflineQueueKeeps(stored, ok) ==
  [success |-> ok, stored |-> stored]

\* clearOfflineQueue(): storage.local.remove(OFFLINE_QUEUE), `ok` false
\* being the remove throwing.  A removed key is modelled as the empty
\* sequence: getOfflineQueue reads it as `result[key] || []`.
clearOfflineQueue(stored, ok) ==
  [success |-> ok, stored |-> IF ok THEN <<>> ELSE stored]

\* addToOfflineQueue with a catch block that answers { success: true }
addToOfflineQueueReportsSuccess(stored, read, data, now, rnd, readOk, writeOk) ==
  [success |-> TRUE,
   stored  |-> IF readOk /\ writeOk THEN PushEntry(read, data, now, rnd)
                                    ELSE stored]

\* addToOfflineQueue(bookmarkData): its result and the value the store holds
\* afterwards.  `stored` is what the store holds when the call's write is
\* due and `read` what its storage.local.get returned; readOk and writeOk
\* false are storage.local.get and storage.local.set throwing, which the
\* catch block turns into a failure result.
addToOfflineQueue(stored, read, data, now, rnd, readOk, writeOk) ==
  [success |-> readOk /\ writeOk,
   stored  |-> IF readOk /\ writeOk THEN PushEntry(read, data, now, rnd)
                                    ELSE stored]

\* updateBadge without its `if (!this.api.isAuthenticated())` branch
updateBadgeIgnoresAuth(a, q, ok) ==
  LET offlineCount == IF ok THEN Len(q) ELSE 0
  IN  IF offlineCount > 0 THEN NumToString(offlineCount) ELSE <<>>

\* updateBadge(): the badge text it sets; `ok` is whether the storage read
\* inside getOfflineQueue worked.
updateBadge(a, q, ok) ==
  IF ~isAuthenticated(a) THEN <<>>
  ELSE LET offlineCount == IF ok THEN Len(q) ELSE 0
       IN  IF offlineCount > 0 THEN NumToString(offlineCount) ELSE <<>>

\* the two handlers that call addToOfflineQueue
EnqueueHandlers == {"handleSaveBookmark", "handleContextMenuClick"}

\* The badge text once a handler that has enqueued an item returns, `before`
\* being the text when it was called.  After addToOfflineQueue the popup
\* calls showToast and showSuccess and the context-menu handler calls
\* showNotification; neither calls updateBadge or setBadgeText, and the
\* popup sends no message to the background.
BadgeAfterEnqueue(handler, before, a, q) == before

\* the states a TurbodocAPI can be in
ApiStates == {setSession(s) : s \in Sessions}

\* What a save handler does with the result of createBookmark: "saved" on
\* success, "queue" (addToOfflineQueue) when the message passes
\* ShouldQueue, "error" otherwise.
SaveDecision(result) ==
  IF result.success THEN "saved"
  ELSE IF ShouldQueue(result) THEN "queue" ELSE "error"

\* What a save handler tells the user at its end.  `addSuccess` is the
\* success field of what addToOfflineQueue returned; the handlers await the
\* call and do not look at its result.  "saved" stands for showSuccess() and
\* 'Bookmark Saved!', "saved offline" for the 'saved offline' toast with
\* showSuccess() and for 'Saved Offline', "error" for showError() and 'Error'.
SaveDisplay(decision, addSuccess) ==
  CASE decision = "saved" -> "saved"
    [] decision = "queue" -> "saved offline"
    [] OTHER -> "error"

\* the decision after createBookmark and after createNote, tabulated once
Decision ==
  [a \in ApiStates, o \in FetchOutcomes |->
     SaveDecision(createBookmark(a, o))]

NoteDecision ==
  [a \in ApiStates, o \in FetchOutcomes |->
     SaveDecision(createNote(a, o))]

\* handleContextMenuClick without its `if (!this.api.isAuthenticated())`
\* block: createBookmark is called whoever is signed in
handleContextMenuClickNoAuthCheck(a, outcome) ==
  CASE Decision[a, outcome] = "saved" ->
         [shown |-> "Bookmark Saved!", remote |-> a.user # Null, add |-> FALSE]
    [] Decision[a, outcome] = "queue" ->
         [shown |-> "Saved Offline", remote |-> a.user # Null, add |-> TRUE]
    [] OTHER ->
         [shown |-> "Error", remote |-> a.user # Null, add |-> FALSE]

\* handleContextMenuClick by what it does: the title of the notification it
\* shows, whether createBookmark sent a request to the remote (it sends
\* none without a user) and whether addToOfflineQueue is called
handleContextMenuClick(a, outcome) ==
  IF ~isAuthenticated(a)
  THEN [shown |-> "Please sign in to Turbodoc first",
        remote |-> FALSE, add |-> FALSE]
  ELSE CASE Decision[a, outcome] = "saved" ->
              [shown |-> "Bookmark Saved!", remote |-> a.user # Null,
               add |-> FALSE]
         [] Decision[a, outcome] = "queue" ->
              [shown |-> "Saved Offline", remote |-> a.user # Null,
               add |-> TRUE]
         [] OTHER ->
              [shown |-> "Error", remote |-> a.user # Null, add |-> FALSE]

\* ------------------------------------------------------------------ state
VARIABLES
  queue,     \* value stored under the key turbodoc_offline_queue
  lastNow,   \* latest value Date.now() has returned
  online,    \* navigator.onLine
  api,       \* session and user of the background's TurbodocAPI
  saver,     \* save handlers in flight (popup form or context menu)
  pass,      \* processOfflineQueue executions in flight
  bgInit,    \* how far TurbodocBackground.init() has come
  accepted,  \* entries whose replay has returned success (history)
  bg,        \* TurbodocBackground: isInitialized, registrations, init() calls
  client     \* TurbodocAPI: isInitialized, Supabase clients, init() calls

vars ==
  <<queue, lastNow, online, api, saver, pass, bgInit, accepted, bg, client>>

Passes == DOMAIN pass

Savers == DOMAIN saver

IdleSaver ==
  [pc |-> "idle", data |-> NoData, q |-> <<>>]

\* Locals of one processOfflineQueue execution (queue is its snapshot, rq
\* the copy removeFromOfflineQueue read), and what it has done so far:
\* read (outcome of getOfflineQueue), results (success of each replay),
\* badgeCalls (calls of updateBadge), notifs ('Sync Complete' shown).
IdlePass ==
  [pc |-> "idle", isInit |-> FALSE, queue |-> <<>>, i |-> 0,
   processedCount |-> 0, failedCount |-> 0, rq |-> <<>>,
   read |-> Null, results |-> <<>>, badgeCalls |-> 0, notifs |-> 0]

\* entries some handler still holds or the store still has
Referenced(q, sv, ps) ==
  Elems(q)
    \cup UNION {Elems(sv[s].q) : s \in Savers}
    \cup UNION {Elems(ps[p].queue) \cup Elems(ps[p].rq) : p \in Passes}

\* history of accepted replays, kept for the entries still referenced
Remember(new) ==
  accepted' = (accepted \cup new) \cap Referenced(queue', saver', pass')

\* init() executions of one instance, by where each is waiting
InitCalls == 1..MaxInitCalls

\* TurbodocBackground after `new TurbodocBackground()`: the constructor has
\* called init(), which has run setupEventListeners() and is waiting for
\* setupContextMenus().  listeners counts the runs of
\* setupEventListeners (each registers the message, context-menu, startup
\* and install listeners), timers the runs of setupPeriodicSync.
BgConstructed ==
  [isInitialized |-> FALSE, listeners |-> 1, timers |-> 0,
   calls |-> [c \in InitCalls |-> IF c = 1 THEN "menus" ELSE "idle"]]

\* TurbodocBackground once that init() has returned normally
BgInitialized ==
  [isInitialized |-> TRUE, listeners |-> 1, timers |-> 1,
   calls |-> [c \in InitCalls |-> "idle"]]

\* TurbodocAPI after `new TurbodocAPI()`: the constructor has called
\* init(), which has created the Supabase client and is waiting for
\* auth.getSession().  clients counts the calls of createClient,
\* authListeners the calls of auth.onAuthStateChange.
ClientConstructed ==
  [isInitialized |-> FALSE, clients |-> 1, authListeners |-> 0,
   calls |-> [c \in InitCalls |-> IF c = 1 THEN "session" ELSE "idle"]]

\* TurbodocAPI once that init() has returned normally
ClientInitialized ==
  [isInitialized |-> TRUE, clients |-> 1, authListeners |-> 1,
   calls |-> [c \in InitCalls |-> "idle"]]

\* the slot a new init() execution runs in
FreeCall(calls, c) ==
  /\ calls[c] = "idle"
  /\ \A r \in InitCalls : calls[r] = "idle" => c <= r

\* TurbodocBackground.init() from its call to its first await:
\* `if (this.isInitialized) return;`, then setupEventListeners() and
\* `await this.setupContextMenus()`
BgInitCall(b, c) ==
  IF b.isInitialized THEN b
  ELSE [b EXCEPT !.listeners = @ + 1, !.calls[c] = "menus"]

\* the end of init()'s try block: setupPeriodicSync() and
\* this.isInitialized = true
BgInitCompleted(b, c) ==
  [b EXCEPT !.timers = @ + 1, !.isInitialized = TRUE, !.calls[c] = "idle"]

\* TurbodocAPI.init() from its call to its first await:
\* `if (this.isInitialized) {return;}`, then createClient(...) and
\* `await this.supabase.auth.getSession()`
ClientInitCall(cl, k) ==
  IF cl.isInitialized THEN cl
  ELSE [cl EXCEPT !.clients = @ + 1, !.calls[k] = "session"]

\* the rest of TurbodocAPI.init(): after getSession() has resolved,
\* setSession, auth.onAuthStateChange(...) and isInitialized = true; after
\* it has rejected, the catch block's isInitialized = false
ClientSessionDone(cl, k, ok) ==
  IF ok
  THEN [cl EXCEPT !.authListeners = @ + 1, !.isInitialized = TRUE,
                  !.calls[k] = "idle"]
  ELSE [cl EXCEPT !.isInitialized = FALSE, !.calls[k] = "idle"]

Init ==
  /\ queue = <<>>
  /\ lastNow = 0
  /\ online \in BOOLEAN
  /\ api = setSession(NoSession)
  /\ saver = [s \in 1..MaxSavers |-> IdleSaver]
  /\ pass = [p \in 1..MaxPasses |-> IdlePass]
  /\ bgInit = "init"
  /\ accepted = {}
  /\ bg = BgConstructed
  /\ client = ClientConstructed

\* --------------------------------------------------- environment and auth
GoOffline ==
  /\ online
  /\ online' = FALSE
  /\ UNCHANGED <<queue, lastNow, api, saver, pass, bgInit, accepted>>
  /\ UNCHANGED <<bg, client>>

\* onAuthStateChange callback of the background: this.setSession(session)
AuthStateChange(session) ==
  /\ api' = setSession(session)
  /\ UNCHANGED <<queue, lastNow, online, saver, pass, bgInit, accepted>>
  /\ UNCHANGED <<bg, client>>

\* handleMessage LOGOUT: TurbodocBackground.handleLogout
MessageLogout ==
  /\ \E signOut \in SignOutOutcomes : api' = logout(api, signOut).api
  /\ UNCHANGED <<queue, lastNow, online, saver, pass, bgInit, accepted>>
  /\ UNCHANGED <<bg, client>>

\* the message types handleMessage has a case for, and two it has none for
KnownTypes ==
  {"GET_AUTH_STATUS", "LOGOUT", "BOOKMARK_SAVED", "GET_CURRENT_TAB",
   "PROCESS_OFFLINE_QUEUE"}

MessageTypes == KnownTypes \cup {"SAVE_NOTE", "PING"}

\* what handleMessage returns to the sender; `a` is the background's
\* TurbodocAPI when the value is built and `tab` the active tab
handleMessageResponse(type, a, tab) ==
  CASE type = "GET_AUTH_STATUS" ->
         [isAuthenticated |-> isAuthenticated(a), user |-> a.user]
    [] type = "LOGOUT" -> [success |-> TRUE]
    [] type = "BOOKMARK_SAVED" -> [success |-> TRUE]
    [] type = "GET_CURRENT_TAB" -> [tab |-> tab]
    [] type = "PROCESS_OFFLINE_QUEUE" -> [success |-> TRUE]
    [] OTHER -> [error |-> "Unknown message type"]

\* handleMessage GET_AUTH_STATUS: reads isAuthenticated() and the user
MessageGetAuthStatus ==
  UNCHANGED <<queue, lastNow, online, api, saver, pass, bgInit, accepted,
              bg, client>>

\* handleMessage GET_CURRENT_TAB: await tabs.query(...)
MessageGetCurrentTab ==
  UNCHANGED <<queue, lastNow, online, api, saver, pass, bgInit, accepted,
              bg, client>>

\* a switch without `default:` in which an unknown type runs the last case,
\* LOGOUT moved to the end
MessageUnknownLogsOut == MessageLogout

\* handleMessage default: console.warn and the error result
MessageUnknown ==
  UNCHANGED <<queue, lastNow, online, api, saver, pass, bgInit, accepted,
              bg, client>>

\* ------------------------------------------------------------ save handlers
FreeSaver(s) ==
  /\ saver[s].pc = "idle"
  /\ \A r \in Savers : saver[r].pc = "idle" => s <= r

\* The save handler once `await createBookmark(...)` has returned
\* `decision`: to queue the item it calls addToOfflineQueue, whose
\* storage.local.get reads the queue (`ok` false: the read throws and
\* addToOfflineQueue returns a failure); after a successful create it
\* reports the success and has one more await before it returns.
AfterCreate(decision, data, ok) ==
  IF decision = "queue" /\ ok
  THEN [pc |-> "add_set", data |-> data, q |-> queue]
  ELSE IF decision = "saved"
  THEN [pc |-> "saved", data |-> data, q |-> <<>>]
  ELSE IdleSaver

\* a handler that is about to queue waits while the queue is at the model's
\* length bound
RoomToQueue(decision) ==
  decision = "queue" => Len(queue) < MaxQueue

\* TurbodocPopup.handleSaveBookmark up to addToOfflineQueue's write; `a` is
\* the state of the popup's own TurbodocAPI when the form is submitted
PopupSaveBookmark(s, a, title, outcome, ok) ==
  /\ FreeSaver(s)
  /\ Possible(online, outcome)
  /\ RoomToQueue(Decision[a, outcome])
  /\ saver' = [saver EXCEPT ![s] =
       AfterCreate(Decision[a, outcome],
                   [type |-> "bookmark", title |-> title], ok)]
  /\ UNCHANGED <<queue, lastNow, online, api, pass, bgInit, accepted>>
  /\ UNCHANGED <<bg, client>>

\* TurbodocPopup.handleSaveNote up to addToOfflineQueue's write
PopupSaveNote(s, a, title, outcome, ok) ==
  /\ FreeSaver(s)
  /\ Possible(online, outcome)
  /\ RoomToQueue(NoteDecision[a, outcome])
  /\ saver' = [saver EXCEPT ![s] =
       AfterCreate(NoteDecision[a, outcome],
                   [type |-> "note", title |-> title], ok)]
  /\ UNCHANGED <<queue, lastNow, online, api, pass, bgInit, accepted>>
  /\ UNCHANGED <<bg, client>>

\* TurbodocBackground.handleContextMenuClick up to addToOfflineQueue's write
ContextMenuClick(s, title, outcome, ok) ==
  /\ FreeSaver(s)
  /\ Possible(online, outcome)
  /\ IF ~isAuthenticated(api)
     THEN UNCHANGED saver
     ELSE /\ RoomToQueue(Decision[api, outcome])
          /\ saver' = [saver EXCEPT ![s] =
               AfterCreate(Decision[api, outcome],
                           [type |-> "bookmark", title |-> title], ok)]
  /\ UNCHANGED <<queue, lastNow, online, api, pass, bgInit, accepted>>
  /\ UNCHANGED <<bg, client>>

\* The rest of a save handler after a successful create: the popup has
\* shown the success view and read the preferences (auto-close), the
\* context menu handler has shown 'Bookmark Saved!' and called updateBadge.
\* Neither calls processOfflineQueue nor sends BOOKMARK_SAVED.
SaveDone(s) ==
  /\ saver[s].pc = "saved"
  /\ saver' = [saver EXCEPT ![s] = IdleSaver]
  /\ UNCHANGED <<queue, lastNow, online, api, pass, bgInit, accepted>>
  /\ UNCHANGED <<bg, client>>

\* addToOfflineQueue: queue.push(...) and await storage.local.set; the
\* handler then tells the user the item was saved offline and returns
AddSet(s, now, rnd, ok) ==
  /\ saver[s].pc = "add_set"
  /\ now >= lastNow
  /\ lastNow' = now
  /\ queue' = addToOfflineQueue(queue, saver[s].q, saver[s].data,
                                 now, rnd, TRUE, ok).stored
  /\ saver' = [saver EXCEPT ![s] = IdleSaver]
  /\ UNCHANGED <<online, api, pass, bgInit>>
  /\ Remember({})
  /\ UNCHANGED <<bg, client>>

\* ------------------------------------------------------------- reconciler
\* processOfflineQueue without its `if (!this.api.isAuthenticated()) return`
BeginPassSkipAuth(a, isInit, ok) ==
  IF ~getOfflineQueue(queue, ok).success
       \/ Len(getOfflineQueue(queue, ok).data) = 0
  THEN [IdlePass EXCEPT !.pc = "done", !.isInit = isInit,
                        !.read = IF ok THEN "ok" ELSE "failed"]
  ELSE [IdlePass EXCEPT !.pc = "loop", !.isInit = isInit, !.read = "ok",
                        !.queue = getOfflineQueue(queue, ok).data,
                        !.i = 1]

\* processOfflineQueue calling updateBadge() ahead of the empty-queue return
BeginPassBadgeFirst(a, isInit, ok) ==
  IF ~isAuthenticated(a)
  THEN [IdlePass EXCEPT !.pc = "done", !.isInit = isInit]
  ELSE IF ~getOfflineQueue(queue, ok).success
          \/ Len(getOfflineQueue(queue, ok).data) = 0
  THEN [IdlePass EXCEPT !.pc = "done", !.isInit = isInit,
                        !.read = IF ok THEN "ok" ELSE "failed",
                        !.badgeCalls = 1]
  ELSE [IdlePass EXCEPT !.pc = "loop", !.isInit = isInit, !.read = "ok",
                        !.queue = getOfflineQueue(queue, ok).data,
                        !.i = 1]

\* processOfflineQueue from its call to the first await that yields: the
\* authentication check, the snapshot read and the empty-queue check.
BeginPass(a, isInit, ok) ==
  IF ~isAuthenticated(a)
  THEN [IdlePass EXCEPT !.pc = "done", !.isInit = isInit]
  ELSE IF ~getOfflineQueue(queue, ok).success
          \/ Len(getOfflineQueue(queue, ok).data) = 0
  THEN [IdlePass EXCEPT !.pc = "done", !.isInit = isInit,
                        !.read = IF ok THEN "ok" ELSE "failed"]
  ELSE [IdlePass EXCEPT !.pc = "loop", !.isInit = isInit, !.read = "ok",
                        !.queue = getOfflineQueue(queue, ok).data,
                        !.i = 1]

\* the slot a newly triggered execution runs in
FreeSlot(p) ==
  /\ pass[p].pc = "idle"
  /\ \A r \in Passes : pass[r].pc = "idle" => p <= r

\* NextItem with updateBadge() called after every loop, outside
\* `if (processedCount > 0)`
NextItemBadgeAlways(rec) ==
  IF rec.i < Len(rec.queue)
  THEN [rec EXCEPT !.pc = "loop", !.i = @ + 1, !.rq = <<>>]
  ELSE [rec EXCEPT !.pc = "done", !.rq = <<>>,
                   !.badgeCalls = 1,
                   !.notifs = IF rec.processedCount > 1 THEN 1 ELSE 0]

\* NextItem for a loop that gives up at the first failed replay (`break`
\* where the code has failedCount++)
NextItemStopsAtFailure(rec) ==
  IF rec.i < Len(rec.queue) /\ rec.failedCount = 0
  THEN [rec EXCEPT !.pc = "loop", !.i = @ + 1, !.rq = <<>>]
  ELSE [rec EXCEPT !.pc = "done", !.rq = <<>>,
                   !.badgeCalls = IF rec.processedCount > 0 THEN 1 ELSE 0,
                   !.notifs = IF rec.processedCount > 1 THEN 1 ELSE 0]

\* NextItem with the notification shown for any processed item
\* (`if (processedCount > 0)` in place of `if (processedCount > 1)`)
NextItemNotifyAny(rec) ==
  IF rec.i < Len(rec.queue)
  THEN [rec EXCEPT !.pc = "loop", !.i = @ + 1, !.rq = <<>>]
  ELSE [rec EXCEPT !.pc = "done", !.rq = <<>>,
                   !.badgeCalls = IF rec.processedCount > 0 THEN 1 ELSE 0,
                   !.notifs = IF rec.processedCount > 0 THEN 1 ELSE 0]

\* end of one iteration of `for (const item of queue)`; after the last
\* one, `if (processedCount > 0)`: updateBadge() and, for more than one
\* processed item, the 'Sync Complete' notification
NextItem(rec) ==
  IF rec.i < Len(rec.queue)
  THEN [rec EXCEPT !.pc = "loop", !.i = @ + 1, !.rq = <<>>]
  ELSE [rec EXCEPT !.pc = "done", !.rq = <<>>,
                   !.badgeCalls = IF rec.processedCount > 0 THEN 1 ELSE 0,
                   !.notifs = IF rec.processedCount > 1 THEN 1 ELSE 0]

\* init(): initializeAuth() restores the stored session and updates the
\* badge, then processOfflineQueue() is called
InitProcessQueue(p, session, ok) ==
  /\ bgInit = "init"
  /\ FreeSlot(p)
  /\ bgInit' = "sync"
  /\ api' = setSession(session)
  /\ pass' = [pass EXCEPT ![p] = BeginPass(setSession(session), TRUE, ok)]
  /\ bg' = [bg EXCEPT !.calls[1] = "queue"]
  /\ client' = ClientSessionDone(client, 1, TRUE)
  /\ UNCHANGED <<queue, lastNow, online, saver, accepted>>

\* the setInterval callback without `navigator.onLine &&` in its condition
TimerTickAnyConnectivity(p, ok) ==
  /\ bgInit = "done"
  /\ isAuthenticated(api)
  /\ FreeSlot(p)
  /\ pass' = [pass EXCEPT ![p] = BeginPass(api, FALSE, ok)]
  /\ UNCHANGED <<queue, lastNow, online, api, saver, bgInit, accepted>>
  /\ UNCHANGED <<bg, client>>

\* setInterval callback of setupPeriodicSync
TimerTick(p, ok) ==
  /\ bgInit = "done"
  /\ online /\ isAuthenticated(api)
  /\ FreeSlot(p)
  /\ pass' = [pass EXCEPT ![p] = BeginPass(api, FALSE, ok)]
  /\ UNCHANGED <<queue, lastNow, online, api, saver, bgInit, accepted>>
  /\ UNCHANGED <<bg, client>>

\* window 'online' listener of setupPeriodicSync (background page)
OnlineEvent(p, ok) ==
  /\ bgInit = "done"
  /\ ~online
  /\ online' = TRUE
  /\ FreeSlot(p)
  /\ pass' = [pass EXCEPT ![p] = BeginPass(api, FALSE, ok)]
  /\ UNCHANGED <<queue, lastNow, api, saver, bgInit, accepted>>
  /\ UNCHANGED <<bg, client>>

\* the device comes back online and no 'online' listener runs: none is
\* registered yet, or the background is a service worker without `window`
GoOnline ==
  /\ ~online
  /\ online' = TRUE
  /\ UNCHANGED <<queue, lastNow, api, saver, pass, bgInit, accepted>>
  /\ UNCHANGED <<bg, client>>

\* handleMessage BOOKMARK_SAVED: await updateBadge(), then the pass
MessageBookmarkSaved(p) ==
  /\ FreeSlot(p)
  /\ pass' = [pass EXCEPT ![p] =
       [IdlePass EXCEPT !.pc = "start"]]
  /\ UNCHANGED <<queue, lastNow, online, api, saver, bgInit, accepted>>
  /\ UNCHANGED <<bg, client>>

\* handleInstallUpdate, reason 'update': await setupContextMenus(), then
\* the pass
InstallUpdate(p) ==
  /\ FreeSlot(p)
  /\ pass' = [pass EXCEPT ![p] =
       [IdlePass EXCEPT !.pc = "start"]]
  /\ UNCHANGED <<queue, lastNow, online, api, saver, bgInit, accepted>>
  /\ UNCHANGED <<bg, client>>

\* the processOfflineQueue call of the two handlers above
PassStart(p, ok) ==
  /\ pass[p].pc = "start"
  /\ pass' = [pass EXCEPT ![p] =
       BeginPass(api, FALSE, ok)]
  /\ UNCHANGED <<queue, lastNow, online, api, saver, bgInit, accepted>>
  /\ UNCHANGED <<bg, client>>

\* handleMessage PROCESS_OFFLINE_QUEUE
MessageProcessQueue(p, ok) ==
  /\ FreeSlot(p)
  /\ pass' = [pass EXCEPT ![p] =
       BeginPass(api, FALSE, ok)]
  /\ UNCHANGED <<queue, lastNow, online, api, saver, bgInit, accepted>>
  /\ UNCHANGED <<bg, client>>

\* the TurbodocAPI method a save handler calls for a payload, and whose
\* failure makes it queue the payload: handleSaveBookmark and
\* handleContextMenuClick call createBookmark, handleSaveNote createNote
SaveOperation(data) ==
  IF data.type = "note" THEN "createNote" ELSE "createBookmark"

\* the TurbodocAPI method the loop of processOfflineQueue calls for an
\* entry of its snapshot
ReplayOperation(item) == "createBookmark"

\* loop body: const result = await this.api.createBookmark(item); on
\* success removeFromOfflineQueue(item.id) is called and its
\* storage.local.get reads the queue (read failure: `ok` false, the removal
\* returns a failure and the item is counted as processed)
PassSubmit(p, outcome, ok) ==
  /\ pass[p].pc = "loop"
  /\ Possible(online, outcome)
  /\ LET item   == pass[p].queue[pass[p].i]
     IN  IF Decision[api, outcome] = "saved"
         THEN /\ pass' = [pass EXCEPT ![p] =
                   IF ok
                   THEN [@ EXCEPT !.pc = "rm_set", !.rq = queue,
                                  !.results = Append(@, TRUE)]
                   ELSE NextItem([@ EXCEPT
                          !.processedCount = @ + 1,
                          !.results = Append(@, TRUE)])]
              /\ UNCHANGED <<queue, saver>>
              /\ Remember({item})
         ELSE /\ pass' = [pass EXCEPT ![p] =
                   NextItem([@ EXCEPT !.failedCount = @ + 1,
                                      !.results = Append(@, FALSE)])]
              /\ UNCHANGED <<queue, saver>>
              /\ Remember({})
  /\ UNCHANGED <<lastNow, online, api, bgInit>>
  /\ UNCHANGED <<bg, client>>

\* PassRemoveSet for a loop that counts an item as processed only when its
\* removal was written (`if (removed.success) processedCount++`)
PassRemoveSetCountsWritten(p, ok) ==
  /\ pass[p].pc = "rm_set"
  /\ LET item == pass[p].queue[pass[p].i]
     IN  /\ queue' = IF ok THEN FilterOut(pass[p].rq, item.id) ELSE queue
         /\ pass' = [pass EXCEPT ![p] =
              NextItem([@ EXCEPT !.processedCount =
                                   IF ok THEN @ + 1 ELSE @])]
  /\ UNCHANGED <<lastNow, online, api, saver, bgInit>>
  /\ Remember({})
  /\ UNCHANGED <<bg, client>>

\* removeFromOfflineQueue: queue.filter(...) and await storage.local.set;
\* the loop counts the item as processed whatever the removal returned
PassRemoveSet(p, ok) ==
  /\ pass[p].pc = "rm_set"
  /\ LET item == pass[p].queue[pass[p].i]
     IN  /\ queue' = IF ok THEN FilterOut(pass[p].rq, item.id) ELSE queue
         /\ pass' = [pass EXCEPT ![p] =
              NextItem([@ EXCEPT !.processedCount = @ + 1])]
  /\ UNCHANGED <<lastNow, online, api, saver, bgInit>>
  /\ Remember({})
  /\ UNCHANGED <<bg, client>>

\* processOfflineQueue has returned to its caller; init() goes on to
\* setupPeriodicSync() and isInitialized = true
PassReturn(p) ==
  /\ pass[p].pc = "done"
  /\ pass' = [pass EXCEPT ![p] = IdlePass]
  /\ bgInit' = IF pass[p].isInit THEN "done" ELSE bgInit
  /\ bg' = IF pass[p].isInit THEN BgInitCompleted(bg, 1) ELSE bg
  /\ UNCHANGED <<queue, lastNow, online, api, saver, client>>
  /\ Remember({})

\* ------------------------------------------------------------ transitions
Next ==
  \/ GoOffline
  \/ GoOnline
  \/ \E s \in Sessions : AuthStateChange(s)
  \/ MessageLogout
  \/ MessageGetAuthStatus
  \/ MessageGetCurrentTab
  \/ MessageUnknown
  \/ \E s \in Savers, a \in ApiStates, t \in Titles, o \in FetchOutcomes, ok \in BOOLEAN :
       PopupSaveBookmark(s, a, t, o, ok)
  \/ \E s \in Savers, a \in ApiStates, t \in Titles, o \in FetchOutcomes, ok \in BOOLEAN :
       PopupSaveNote(s, a, t, o, ok)
  \/ \E s \in Savers, t \in Titles, o \in FetchOutcomes, ok \in BOOLEAN :
       ContextMenuClick(s, t, o, ok)
  \/ \E s \in Savers : SaveDone(s)
  \/ \E s \in Savers, now \in 0..MaxClock, rnd \in 0..(RandRes - 1), ok \in BOOLEAN :
       AddSet(s, now, rnd, ok)
  \/ \E p \in Passes, s \in Sessions, ok \in BOOLEAN : InitProcessQueue(p, s, ok)
  \/ \E p \in Passes, ok \in BOOLEAN : TimerTick(p, ok)
  \/ \E p \in Passes, ok \in BOOLEAN : OnlineEvent(p, ok)
  \/ \E p \in Passes : MessageBookmarkSaved(p)
  \/ \E p \in Passes : InstallUpdate(p)
  \/ \E p \in Passes, ok \in BOOLEAN : PassStart(p, ok)
  \/ \E p \in Passes, ok \in BOOLEAN : MessageProcessQueue(p, ok)
  \/ \E p \in Passes, o \in FetchOutcomes, ok \in BOOLEAN : PassSubmit(p, o, ok)
  \/ \E p \in Passes, ok \in BOOLEAN : PassRemoveSet(p, ok)
  \/ \E p \in Passes : PassReturn(p)

Spec == Init /\ [][Next]_vars

\* ------------------------------------------------- overlapping executions
\* The background after init() has completed with a restored session and
\* the browser online; from here the session and the connection stay as
\* they are, and up to MaxOverlap executions of processOfflineQueue run
\* side by side with the save handlers.
SteadyInit ==
  /\ queue = <<>>
  /\ lastNow = 0
  /\ online = TRUE
  /\ api = setSession(UserSession)
  /\ saver = [s \in 1..MaxSavers |-> IdleSaver]
  /\ pass = [p \in 1..MaxOverlap |-> IdlePass]
  /\ bgInit = "done"
  /\ accepted = {}
  /\ bg = BgInitialized
  /\ client = ClientInitialized

OverlapNext ==
  \/ \E s \in Savers, a \in ApiStates, t \in Titles, o \in FetchOutcomes, ok \in BOOLEAN :
       PopupSaveBookmark(s, a, t, o, ok)
  \/ \E s \in Savers, t \in Titles, o \in FetchOutcomes, ok \in BOOLEAN :
       ContextMenuClick(s, t, o, ok)
  \/ \E s \in Savers : SaveDone(s)
  \/ \E s \in Savers, rnd \in 0..(RandRes - 1), ok \in BOOLEAN :
       AddSet(s, lastNow, rnd, ok)
  \/ \E p \in Passes, ok \in BOOLEAN : TimerTick(p, ok)
  \/ \E p \in Passes : MessageBookmarkSaved(p)
  \/ \E p \in Passes : InstallUpdate(p)
  \/ \E p \in Passes, ok \in BOOLEAN : PassStart(p, ok)
  \/ \E p \in Passes, ok \in BOOLEAN : MessageProcessQueue(p, ok)
  \/ \E p \in Passes, o \in FetchOutcomes, ok \in BOOLEAN : PassSubmit(p, o, ok)
  \/ \E p \in Passes, ok \in BOOLEAN : PassRemoveSet(p, ok)
  \/ \E p \in Passes : PassReturn(p)

OverlapSpec == SteadyInit /\ [][OverlapNext]_vars

\* ------------------------------------------------------- sequential saves
\* Save handlers run one after the other against a working store; no
\* processOfflineQueue runs.
SeqInit ==
  /\ queue = <<>>
  /\ lastNow = 0
  /\ online \in BOOLEAN
  /\ api = setSession(NoSession)
  /\ saver = [s \in {1} |-> IdleSaver]
  /\ pass = [p \in 1..MaxPasses |-> IdlePass]
  /\ bgInit = "init"
  /\ accepted = {}
  /\ bg = BgConstructed
  /\ client = ClientConstructed

SeqNext ==
  \/ GoOffline
  \/ GoOnline
  \/ \E s \in Sessions : AuthStateChange(s)
  \/ MessageLogout
  \/ \E s \in Savers, a \in ApiStates, t \in Titles, o \in FetchOutcomes :
       PopupSaveBookmark(s, a, t, o, TRUE)
  \/ \E s \in Savers, a \in ApiStates, t \in Titles, o \in FetchOutcomes :
       PopupSaveNote(s, a, t, o, TRUE)
  \/ \E s \in Savers, t \in Titles, o \in FetchOutcomes :
       ContextMenuClick(s, t, o, TRUE)
  \/ \E s \in Savers : SaveDone(s)
  \/ \E s \in Savers, now \in 0..MaxClock, rnd \in 0..(RandRes - 1) :
       AddSet(s, now, rnd, TRUE)

SeqSpec == SeqInit /\ [][SeqNext]_vars

\* --------------------------------------------------- clearing the queue
\* StorageManager.clearOfflineQueue has no caller in the extension; here a
\* client of StorageManager calls it between sequential saves.
ClearQueue(ok) ==
  /\ queue' = clearOfflineQueue(queue, ok).stored
  /\ UNCHANGED <<lastNow, online, api, saver, pass, bgInit>>
  /\ Remember({})
  /\ UNCHANGED <<bg, client>>

ClearNext ==
  \/ SeqNext
  \/ \E ok \in BOOLEAN : ClearQueue(ok)

ClearSpec == SeqInit /\ [][ClearNext]_vars

\* ------------------------------------------------------ favourable period
\* From some moment on the browser is online, the user stays signed in, the
\* remote accepts every submission and the store works.  Before that
\* moment entries were queued, and a save handler whose create failed may
\* still be between the read and the write of addToOfflineQueue.
StoredEntries ==
  {QueueEntry(d, 0, r) : d \in BookmarkData \cup NoteData,
                         r \in 0..(RandRes - 1)}

StoredQueues ==
  UNION {[1..n -> StoredEntries] : n \in 0..MaxQueue}

PendingAdds(q) ==
  IF Len(q) < MaxQueue
  THEN {[pc |-> "add_set", data |-> d, q |-> q] :
          d \in BookmarkData \cup NoteData}
  ELSE {}

LiveInit ==
  /\ queue \in StoredQueues
  /\ lastNow = 0
  /\ online = TRUE
  /\ api = setSession(UserSession)
  /\ saver \in [1..MaxSavers -> {IdleSaver} \cup PendingAdds(queue)]
  /\ pass = [p \in 1..MaxPasses |-> IdlePass]
  /\ bgInit = "done"
  /\ accepted = {}
  /\ bg = BgInitialized
  /\ client = ClientInitialized

Accepting == Response(200, <<>>)

LiveAdd == \E s \in Savers, rnd \in 0..(RandRes - 1) : AddSet(s, lastNow, rnd, TRUE)

LiveTick == \E p \in Passes : TimerTick(p, TRUE)

LiveSubmit == \E p \in Passes : PassSubmit(p, Accepting, TRUE)

LiveRemove == \E p \in Passes : PassRemoveSet(p, TRUE)

LiveReturn == \E p \in Passes : PassReturn(p)

LiveNext ==
  \/ LiveAdd
  \/ LiveTick
  \/ LiveSubmit
  \/ LiveRemove
  \/ LiveReturn

\* the timer keeps firing and every pending continuation runs
LiveSpec ==
  /\ LiveInit
  /\ [][LiveNext]_vars
  /\ WF_vars(LiveAdd)
  /\ WF_vars(LiveTick)
  /\ WF_vars(LiveSubmit)
  /\ WF_vars(LiveRemove)
  /\ WF_vars(LiveReturn)

\* ------------------------------------------------------- replay of a queue
\* The background after init(), with entries in the store from earlier
\* saves: passes are started by the timer and by PROCESS_OFFLINE_QUEUE and
\* run one at a time, the remote answers anything, the store may fail, and
\* the user may sign out and in and the connection may come and go while a
\* pass runs.  No save handler runs.
ReplayInit ==
  /\ queue \in StoredQueues
  /\ lastNow = 0
  /\ online \in BOOLEAN
  /\ api = setSession(UserSession)
  /\ saver = [s \in {1} |-> IdleSaver]
  /\ pass = [p \in {1} |-> IdlePass]
  /\ bgInit = "done"
  /\ accepted = {}
  /\ bg = BgInitialized
  /\ client = ClientInitialized

ReplayNext ==
  \/ GoOffline
  \/ GoOnline
  \/ \E s \in Sessions : AuthStateChange(s)
  \/ MessageLogout
  \/ MessageGetAuthStatus
  \/ MessageGetCurrentTab
  \/ MessageUnknown
  \/ \E p \in Passes, ok \in BOOLEAN : TimerTick(p, ok)
  \/ \E p \in Passes, ok \in BOOLEAN : MessageProcessQueue(p, ok)
  \/ \E p \in Passes, o \in FetchOutcomes, ok \in BOOLEAN : PassSubmit(p, o, ok)
  \/ \E p \in Passes, ok \in BOOLEAN : PassRemoveSet(p, ok)
  \/ \E p \in Passes : PassReturn(p)

ReplaySpec == ReplayInit /\ [][ReplayNext]_vars

\* ------------------------------------------------------- a working store
\* The steady state of OverlapSpec with a store that never fails: every
\* storage.local.get and storage.local.set of the queue's key succeeds, so
\* every removal is written, and every response of the remote reaches the
\* execution that sent the request.
ReliableNext ==
  \/ \E s \in Savers, a \in ApiStates, t \in Titles, o \in FetchOutcomes :
       PopupSaveBookmark(s, a, t, o, TRUE)
  \/ \E s \in Savers, t \in Titles, o \in FetchOutcomes :
       ContextMenuClick(s, t, o, TRUE)
  \/ \E s \in Savers : SaveDone(s)
  \/ \E s \in Savers, rnd \in 0..(RandRes - 1) : AddSet(s, lastNow, rnd, TRUE)
  \/ \E p \in Passes : TimerTick(p, TRUE)
  \/ \E p \in Passes : MessageBookmarkSaved(p)
  \/ \E p \in Passes : InstallUpdate(p)
  \/ \E p \in Passes : PassStart(p, TRUE)
  \/ \E p \in Passes : MessageProcessQueue(p, TRUE)
  \/ \E p \in Passes, o \in FetchOutcomes : PassSubmit(p, o, TRUE)
  \/ \E p \in Passes : PassRemoveSet(p, TRUE)
  \/ \E p \in Passes : PassReturn(p)

ReliableSpec == SteadyInit /\ [][ReliableNext]_vars

\* -------------------------------------------------- start of the instances
\* The init() executions of one TurbodocBackground and of its TurbodocAPI
\* on a first run: nobody is signed in and nothing is queued, so that
\* processOfflineQueue inside init() returns at its authentication check.
\* The browser-startup event calls init() again through the listener that
\* setupEventListeners registered; login, request, createBookmark, logout
\* and initializeAuth call the client's init() and await it.
StartupEvent(c) ==
  /\ bg.listeners > 0
  /\ bg.listeners < MaxRegistrations
  /\ FreeCall(bg.calls, c)
  /\ bg' = BgInitCall(bg, c)
  /\ UNCHANGED <<queue, lastNow, online, api, saver, pass, bgInit, accepted,
                 client>>

\* `await this.setupContextMenus()` returns, or throws into init()'s catch
\* block, which leaves isInitialized false
BgMenusDone(c, ok) ==
  /\ bg.calls[c] = "menus"
  /\ bg' = [bg EXCEPT !.calls[c] = IF ok THEN "auth" ELSE "idle"]
  /\ UNCHANGED <<queue, lastNow, online, api, saver, pass, bgInit, accepted,
                 client>>

\* `await this.initializeAuth()` returns: processOfflineQueue is called
BgAuthDone(c) ==
  /\ bg.calls[c] = "auth"
  /\ bg' = [bg EXCEPT !.calls[c] = "queue"]
  /\ bgInit' = IF bgInit = "init" THEN "sync" ELSE bgInit
  /\ UNCHANGED <<queue, lastNow, online, api, saver, pass, accepted, client>>

\* `await this.processOfflineQueue()` returns: setupPeriodicSync() and
\* isInitialized = true
BgQueueDone(c) ==
  /\ bg.calls[c] = "queue"
  /\ bg' = BgInitCompleted(bg, c)
  /\ bgInit' = "done"
  /\ UNCHANGED <<queue, lastNow, online, api, saver, pass, accepted, client>>

\* a method of TurbodocAPI runs `await this.init()`
ClientInit(k) ==
  /\ client.clients < MaxRegistrations
  /\ FreeCall(client.calls, k)
  /\ client' = ClientInitCall(client, k)
  /\ UNCHANGED <<queue, lastNow, online, api, saver, pass, bgInit, accepted,
                 bg>>

\* auth.getSession() of init() execution k resolves (without a stored
\* session) or rejects
ClientSession(k, ok) ==
  /\ client.calls[k] = "session"
  /\ client' = ClientSessionDone(client, k, ok)
  /\ api' = IF ok THEN setSession(NoSession) ELSE api
  /\ UNCHANGED <<queue, lastNow, online, saver, pass, bgInit, accepted, bg>>

BootNext ==
  \/ \E c \in InitCalls : StartupEvent(c)
  \/ \E c \in InitCalls, ok \in BOOLEAN : BgMenusDone(c, ok)
  \/ \E c \in InitCalls : BgAuthDone(c)
  \/ \E c \in InitCalls : BgQueueDone(c)
  \/ \E k \in InitCalls : ClientInit(k)
  \/ \E k \in InitCalls, ok \in BOOLEAN : ClientSession(k, ok)

BootSpec == Init /\ [][BootNext]_vars

\* ================================================================ claims
\* entries that left the persisted queue in this step
Leaving == Elems(queue) \ Elems(queue')

\* execution p is inside the body of processOfflineQueue
InProgress(p) == pass[p].pc \in {"loop", "rm_set"}

\* execution p leaves its loop in this step
Finishes(p) == InProgress(p) /\ pass'[p].pc = "done"

\* execution p is called in this step
Begins(p) ==
  /\ pass[p].pc \in {"idle", "start"}
  /\ pass'[p].pc \notin {"idle", "start"}

\* the payloads of a queue, in order
Payloads(q) == [k \in 1..Len(q) |-> q[k].data]

\* C1: whatever the interleaving of enqueues, removals and passes, an
\* entry leaves the persisted queue only after a replay of that same entry
\* has returned success.
C1_LeavesOnlyAfterSuccess ==
  [][\A e \in Leaving : e \in accepted]_vars

\* C2: no two executions of processOfflineQueue are in progress at the
\* same time, whatever triggers fire.
C2_OnePassAtATime ==
  Cardinality({p \in Passes : InProgress(p)}) <= 1

\* C3: when a pass in which the replay of entry K failed ends, K is still
\* in the queue, and every entry of the snapshot was submitted (a failure
\* does not end the loop early).
C3_FailedEntryStays ==
  [][\A p \in Passes :
       Finishes(p) =>
         /\ Len(pass'[p].results) = Len(pass'[p].queue)
         /\ \A k \in 1..Len(pass'[p].results) :
              ~pass'[p].results[k] => pass'[p].queue[k] \in Elems(queue')]_vars

\* C4: when a pass in which every replay succeeded ends, the persisted
\* queue is empty.
C4_AllSucceededEmpties ==
  [][\A p \in Passes :
       (Finishes(p) /\ \A k \in 1..Len(pass'[p].results) : pass'[p].results[k])
         => queue' = <<>>]_vars

\* C5: a pass called while isAuthenticated() is false reads and changes no
\* queue and submits nothing to the remote: it returns at once, and stays
\* without effect until it has returned.
C5_UnauthPassDoesNothing ==
  [][\A p \in Passes :
       /\ (Begins(p) /\ ~isAuthenticated(api')) =>
            /\ pass'[p].pc = "done"
            /\ pass'[p].read = Null
            /\ pass'[p].results = <<>>
            /\ queue' = queue
       /\ (pass[p].pc = "done" /\ pass[p].read = Null) =>
            pass'[p] \in {pass[p], IdlePass}]_vars

\* a pass has returned from the authentication check
C5_Witness ==
  \E p \in Passes :
    /\ pass[p].pc = "done"
    /\ pass[p].read = Null
    /\ ~isAuthenticated(api)
    /\ Len(queue) > 0

\* C6: a pass over an empty queue is a no-op: nothing is submitted, no
\* notification is shown, the badge is not updated and the queue is as it
\* was.
C6_EmptyPassNoOp ==
  [][\A p \in Passes :
       (pass'[p].pc # "idle" /\ pass'[p].read = "ok" /\ pass'[p].queue = <<>>)
         => /\ pass'[p].pc = "done"
            /\ pass'[p].results = <<>>
            /\ pass'[p].processedCount = 0
            /\ pass'[p].notifs = 0
            /\ pass'[p].badgeCalls = 0
            /\ Begins(p) => queue' = queue]_vars

\* a pass has read an empty queue and is about to return
C6_Witness ==
  \E p \in Passes :
    /\ pass[p].pc = "done"
    /\ pass[p].read = "ok"
    /\ pass[p].queue = <<>>

\* C7: after addToOfflineQueue calls made one after the other against a
\* working store, getOfflineQueue returns their payloads, one entry for
\* each, in the order of the calls: each call appends its payload to what
\* getOfflineQueue returned before it.
C7_EnqueueOrder ==
  [][\A s \in Savers :
       (saver[s].pc = "add_set" /\ saver'[s].pc = "idle")
         => /\ getOfflineQueue(queue', TRUE).success
            /\ Payloads(getOfflineQueue(queue', TRUE).data)
                 = Append(Payloads(getOfflineQueue(queue, TRUE).data),
                          saver[s].data)]_vars

\* two different payloads have been queued one after the other
C7_Witness ==
  /\ Len(queue) = 2
  /\ queue[1].data.type = "bookmark"
  /\ queue[2].data.type = "note"
  /\ \A s \in Savers : saver[s].pc = "idle"

\* C8: removeFromOfflineQueue(id) with an id that matches no entry leaves
\* the stored sequence as it is.
C8_UnmatchedRemoveKeeps ==
  [][\A p \in Passes :
       (/\ pass[p].pc = "rm_set"
        /\ pass'[p].pc # "rm_set"
        /\ \A k \in 1..Len(pass[p].rq) :
             pass[p].rq[k].id # pass[p].queue[pass[p].i].id)
         => queue' = queue]_vars

\* The failure kind of the remote API contract for one create attempt.
KindOf(a, outcome) ==
  IF a.user = Null THEN "NotAuthenticated"
  ELSE IF outcome.t = "throw" THEN "NetworkError"
  ELSE IF outcome.status >= 200 /\ outcome.status <= 299 THEN "Success"
  ELSE IF outcome.status = 401 THEN "Unauthorized"
  ELSE IF outcome.status = 403 THEN "Forbidden"
  ELSE IF outcome.status = 404 THEN "NotFound"
  ELSE IF outcome.status >= 500 THEN "ServerError"
  ELSE IF outcome.status \in {400, 422} THEN "Validation"
  ELSE "Unknown"

\* C9: a save appends to the queue exactly when the remote create failed
\* with kind ServerError or NetworkError; a success and every other kind
\* of failure never enqueue.
C9_QueueIffRetryable ==
  \A a \in ApiStates, o \in FetchOutcomes :
    Possible(online, o) =>
      /\ Decision[a, o] = "queue"
           <=> KindOf(a, o) \in {"ServerError", "NetworkError"}
      /\ NoteDecision[a, o] = "queue"
           <=> KindOf(a, o) \in {"ServerError", "NetworkError"}

\* C10: while the browser is online, the user stays signed in and the
\* remote accepts every submission, every entry in the queue is eventually
\* delivered and removed.
C10_EventuallyDelivered ==
  \A e \in StoredEntries :
    (e \in Elems(queue)) ~> (e \in accepted /\ e \notin Elems(queue))

\* the step at which a signed-in background completes the LOGOUT message
LogoutCompletes ==
  /\ isAuthenticated(api)
  /\ MessageLogout

\* C11: once an explicit logout has completed, the persisted offline queue
\* is empty, so that nothing queued before the logout is left to be
\* replayed under a later session.
C11_LogoutClearsQueue ==
  [][LogoutCompletes => queue' = <<>>]_vars

\* C12: addToOfflineQueue reports success when the store works and the
\* entry is then the last one of what it wrote; when its read or its write
\* of the store fails it reports a failure and the persisted queue is what
\* it was.  Checked for a call that starts in the current state and for
\* every call that is between its read and its write.
C12_AddFailureIsReported ==
  \A now \in 0..MaxClock, rnd \in 0..(RandRes - 1) :
    /\ \A d \in BookmarkData \cup NoteData :
         LET noRead == addToOfflineQueue(queue, queue, d, now, rnd, FALSE, TRUE)
         IN  ~noRead.success /\ noRead.stored = queue
    /\ \A s \in Savers :
         saver[s].pc = "add_set" =>
           LET worked  == addToOfflineQueue(queue, saver[s].q, saver[s].data,
                                            now, rnd, TRUE, TRUE)
               noWrite == addToOfflineQueue(queue, saver[s].q, saver[s].data,
                                            now, rnd, TRUE, FALSE)
           IN  /\ worked.success
               /\ Payloads(worked.stored)
                    = Append(Payloads(saver[s].q), saver[s].data)
               /\ ~noWrite.success
               /\ noWrite.stored = queue

\* a second addToOfflineQueue is between its read and its write while the
\* store holds an entry
C12_Witness ==
  \E s \in Savers : saver[s].pc = "add_set" /\ Len(queue) > 0

\* C13: the 'Sync Complete' notification is shown once by an execution of
\* processOfflineQueue that has finished its loop with a processed count
\* above one, and not at all otherwise: not while the loop runs (never one
\* per item), not for a processed count of 0 or 1, and not for failed items.
C13_OneNotificationPerPass ==
  \A p \in Passes :
    pass[p].notifs =
      IF pass[p].pc = "done" /\ pass[p].processedCount > 1 THEN 1 ELSE 0

\* an execution has replayed two entries with success and shown the
\* notification once
C13_Witness ==
  \E p \in Passes :
    /\ pass[p].pc = "done"
    /\ pass[p].processedCount = 2
    /\ pass[p].notifs = 1

\* the periodic timer's callback starts an execution of processOfflineQueue
TickFires ==
  \E p \in Passes, ok \in BOOLEAN : TimerTick(p, ok)

\* C14: while the browser reports offline a tick of the periodic timer
\* starts no pass: it reads no queue, submits nothing and changes nothing.
C14_OfflineTickSkipped ==
  ~online => ~ENABLED TickFires

\* the timer is armed, the user is signed in, entries wait in the queue, no
\* pass is running, and the browser is offline
C14_Witness ==
  /\ ~online
  /\ bgInit = "done"
  /\ isAuthenticated(api)
  /\ Len(queue) > 0
  /\ \A p \in Passes : pass[p].pc = "idle"

\* C15: every restoration of connectivity (navigator.onLine turning true)
\* starts a pass in that same step, whatever the timer does.  Stated for
\* the background whose init() has returned, that is after
\* setupPeriodicSync has run.
C15_OnlineStartsPass ==
  [][(bgInit = "done" /\ ~online /\ online')
       => \E p \in Passes : Begins(p)]_vars

\* save handler s returns after a successful online save of a bookmark
BookmarkSaveReturns(s) ==
  /\ saver[s].pc = "saved"
  /\ saver[s].data.type = "bookmark"
  /\ saver'[s].pc = "idle"

\* C16: a successful online bookmark save, from the popup form or from the
\* context menu, is immediately followed by a pass: by the time the save
\* handler returns it has called processOfflineQueue or posted the
\* BOOKMARK_SAVED message that does.
C16_SaveStartsPass ==
  [][\A s \in Savers :
       BookmarkSaveReturns(s)
         => \E p \in Passes : pass[p].pc = "idle" /\ pass'[p].pc # "idle"]_vars

\* a replay of entry e by an execution still on record has failed
HasFailed(e) ==
  \E p \in Passes :
    \E k \in 1..Len(pass[p].results) :
      pass[p].queue[k] = e /\ ~pass[p].results[k]

\* C17: an entry whose replay fails stays in the queue, whatever the kind
\* of failure, for the later passes to submit again: as long as no replay
\* of it has succeeded nothing takes it out of the queue.
C17_FailingEntryKept ==
  [][\A e \in Leaving : HasFailed(e) => e \in accepted]_vars

\* Execution p has received a successful replay and the read inside
\* removeFromOfflineQueue has failed: its results grow by a success and it
\* does not go on to the removal's write.
RemovalFailed(p) ==
  /\ pass[p].pc = "loop"
  /\ Len(pass'[p].results) = Len(pass[p].results) + 1
  /\ pass'[p].results[Len(pass'[p].results)]
  /\ pass'[p].pc # "rm_set"

\* C18: a storage failure ends the pass.  When the removal of a delivered
\* entry fails, the pass ends there (no further entry of the snapshot is
\* submitted) and that entry is not counted as processed.
C18_StoreFailureEndsPass ==
  [][\A p \in Passes :
       RemovalFailed(p)
         => /\ pass'[p].pc = "done"
            /\ pass'[p].processedCount = pass[p].processedCount]_vars

\* C19: the entries of the persisted queue have pairwise distinct ids, so
\* that removeFromOfflineQueue(id) removes at most one entry.
C19_DistinctIds ==
  \A j, k \in 1..Len(queue) : j # k => queue[j].id # queue[k].id

\* C20: clearOfflineQueue empties the queue whatever it holds: once it has
\* succeeded, getOfflineQueue returns the empty sequence.
C20_ClearEmpties ==
  LET cleared == clearOfflineQueue(queue, TRUE)
  IN  /\ cleared.success
      /\ getOfflineQueue(cleared.stored, TRUE).success
      /\ getOfflineQueue(cleared.stored, TRUE).data = <<>>

\* entries were enqueued (the clock has moved with an enqueue) and the
\* queue is empty again; with no pass running only clearOfflineQueue can
\* have emptied it
C20_Witness ==
  /\ lastNow > 0
  /\ queue = <<>>
  /\ \A p \in Passes : pass[p].pc = "idle"

\* a Result value: success, or failure with a non-empty error text
IsResult(r) ==
  /\ DOMAIN r = {"success", "error"}
  /\ r.success \in BOOLEAN
  /\ ~r.success => Len(r.error) > 0

\* C21: createBookmark returns a Result (success, or failure with an
\* error) and never throws to its caller, whatever the authentication
\* state of the receiver and whatever fetch produces.  Checked for the
\* background's TurbodocAPI in its current state and for every state the
\* popup's TurbodocAPI can be in, against every outcome the connection
\* allows.
C21_CreateBookmarkTotal ==
  \A a \in ApiStates \cup {api}, o \in FetchOutcomes :
    Possible(online, o) => IsResult(createBookmark(a, o))

\* a save handler has called createBookmark while the browser was offline
\* (fetch can only throw) and has gone on with the failure result it got
C21_Witness ==
  \E s \in Savers :
    /\ saver[s].pc = "add_set"
    /\ saver[s].data.type = "bookmark"
    /\ ~online

\* save handler s, queueing a note, returns from addToOfflineQueue
NoteAddReturns(s) ==
  /\ saver[s].pc = "add_set"
  /\ saver[s].data.type = "note"
  /\ saver'[s].pc = "idle"

\* C22: a popup note save whose create failed with a retryable kind
\* appends the note payload to the offline queue before it shows the note
\* success state: when its addToOfflineQueue returns, the payload is the
\* last entry of the persisted queue.
C22_RetryableNoteQueued ==
  [][\A s \in Savers :
       NoteAddReturns(s)
         => /\ Len(queue') > 0
            /\ queue'[Len(queue')].data = saver[s].data]_vars

\* C23: a pass submits exactly the entries of the snapshot it read at its
\* start, once each and in insertion order, and runs to the end of that
\* snapshot whatever happens to the persisted queue meanwhile.  In every
\* step taken while execution p is inside its loop: its snapshot is what
\* it was, at most one submission completes and it is the one of entry
\* number i, and the loop is left only when every snapshot entry has been
\* submitted.
C23_SnapshotReplayed ==
  [][\A p \in Passes :
       pass[p].pc \in {"loop", "rm_set"}
         => /\ pass'[p].queue = pass[p].queue
            /\ pass'[p].pc \in {"loop", "rm_set", "done"}
            /\ Len(pass'[p].results) \in
                 {Len(pass[p].results), Len(pass[p].results) + 1}
            /\ Len(pass'[p].results) = Len(pass[p].results) + 1
                 => pass[p].pc = "loop" /\ pass[p].i = Len(pass'[p].results)
            /\ pass'[p].pc = "done"
                 => Len(pass'[p].results) = Len(pass[p].queue)]_vars

\* a pass has submitted both entries of its snapshot while the persisted
\* queue holds an entry that is not in the snapshot
C23_Witness ==
  \E p \in Passes :
    /\ pass[p].pc = "done"
    /\ Len(pass[p].results) = 2
    /\ Elems(queue) \ Elems(pass[p].queue) # {}

\* the popup's bookmark save starts an addToOfflineQueue of its own (its
\* storage.local.get reads the queue in the popup's context)
PopupReadsQueue ==
  \E s \in Savers, a \in ApiStates, t \in Titles, o \in FetchOutcomes :
    PopupSaveBookmark(s, a, t, o, TRUE) /\ saver'[s].pc = "add_set"

\* C24: the queue has a single owner, the background: while the background
\* is between the read and the write of a removeFromOfflineQueue, no
\* addToOfflineQueue of the popup can read or write the same key.
C24_SingleOwner ==
  (\E p \in Passes : pass[p].pc = "rm_set") => ~ENABLED PopupReadsQueue

\* C25: a removeFromOfflineQueue(id) that changes the persisted queue
\* takes out exactly the entries with that id and leaves every other entry
\* where it was, and an addToOfflineQueue that changes it only appends:
\* the entries already queued stay, unchanged and in their order.
C25_OthersUntouched ==
  [][/\ \A p \in Passes :
          (pass[p].pc = "rm_set" /\ pass'[p].pc # "rm_set" /\ queue' # queue)
            => queue' = FilterOut(queue, pass[p].queue[pass[p].i].id)
     /\ \A s \in Savers :
          (saver[s].pc = "add_set" /\ saver'[s].pc = "idle" /\ queue' # queue)
            => /\ Len(queue') = Len(queue) + 1
               /\ SubSeq(queue', 1, Len(queue)) = queue]_vars

\* C26: a pass calls updateBadge if and only if its processed count is
\* greater than 0, and a pass in which every replay failed changes neither
\* the badge nor the queue.  In every step of execution p: updateBadge has
\* been called (once) exactly when p has left its loop with
\* processedCount > 0, and as long as processedCount is 0 the step leaves
\* the persisted queue as it is.
C26_BadgeIffProcessed ==
  [][\A p \in Passes :
       (pass'[p] # pass[p] /\ pass'[p].pc # "idle")
         => /\ pass'[p].badgeCalls =
                 IF pass'[p].pc = "done" /\ pass'[p].processedCount > 0
                 THEN 1 ELSE 0
            /\ pass'[p].processedCount = 0 => queue' = queue]_vars

\* a pass over two entries has finished with both replays failed, no call
\* of updateBadge, and the persisted queue equal to its snapshot
C26_Witness ==
  \E p \in Passes :
    /\ pass[p].pc = "done"
    /\ pass[p].failedCount = 2
    /\ pass[p].processedCount = 0
    /\ pass[p].badgeCalls = 0
    /\ queue = pass[p].queue

\* the number a text of decimal digits denotes
DigitValue(c) == CHOOSE d \in 0..9 : DigitChar(d) = c

RECURSIVE ParseDecimal(_)
ParseDecimal(text) ==
  IF Len(text) = 0 THEN 0
  ELSE 10 * ParseDecimal(SubSeq(text, 1, Len(text) - 1))
         + DigitValue(text[Len(text)])

IsDecimal(text) ==
  /\ Len(text) > 0
  /\ \A k \in 1..Len(text) : \E d \in 0..9 : text[k] = DigitChar(d)
  /\ Len(text) > 1 => text[1] # DigitChar(0)

ClassOf(o) ==
  IF o.t = "throw" THEN NETWORK_ERROR
  ELSE CASE o.status = 401  -> UNAUTHORIZED
         [] o.status = 403  -> FORBIDDEN
         [] o.status = 404  -> NOT_FOUND
         [] o.status >= 500 -> SERVER_ERROR
         [] OTHER -> IF o.message # <<>> THEN o.message
                     ELSE StrHTTP \o NumToString(o.status)

\* C28: request turns every non-success outcome into the failure code of
\* the table (401, 403, 404, >= 500, fetch TypeError, otherwise the
\* server's message or 'HTTP <status>'), and of these only SERVER_ERROR and
\* NETWORK_ERROR map to a message that the save handlers take as
\* retryable.
C28_Classification ==
  \A o \in FetchOutcomes :
    (Possible(online, o) /\ ~request(o).ok)
      => /\ request(o).error = ClassOf(o)
         /\ ShouldQueue([success |-> FALSE,
                         error   |-> getErrorMessage(request(o).error)])
              => request(o).error \in {SERVER_ERROR, NETWORK_ERROR}

\* execution p completes the replay of one snapshot entry in this step
Replays(p) ==
  /\ pass[p].pc = "loop"
  /\ Len(pass'[p].results) = Len(pass[p].results) + 1

\* C29: createBookmark called while no user is authenticated returns a
\* failure without a network request, so its result does not depend on
\* what the network would answer; an entry replayed after a sign-out in
\* the middle of a pass fails and stays in the queue.
C29_SignedOutReplayFails ==
  [][\A p \in Passes :
       (Replays(p) /\ ~isAuthenticated(api))
         => /\ \A o \in FetchOutcomes :
                 createBookmark(api, o)
                   = [success |-> FALSE, error |-> MsgNotAuthenticated]
            /\ ~pass'[p].results[Len(pass'[p].results)]
            /\ pass'[p].failedCount = pass[p].failedCount + 1
            /\ queue' = queue]_vars

\* the user signed out during a pass: its first replay succeeded, its
\* second failed while nobody was signed in, and the failed entry is in
\* the queue
C29_Witness ==
  \E p \in Passes :
    /\ ~isAuthenticated(api)
    /\ pass[p].results = <<TRUE, FALSE>>
    /\ pass[p].queue[2] \in Elems(queue)

\* C30: whatever auth events have happened, the client's user is null
\* when its session is null and is the session's user otherwise, and
\* isAuthenticated() is true exactly when session and user are both
\* non-null.  Stated for the background's TurbodocAPI and for every state
\* the popup's TurbodocAPI is used in.
C30_UserFollowsSession ==
  \A a \in ApiStates \cup {api} :
    /\ ~a.session.present => a.user = Null
    /\ a.session.present => a.user = a.session.user
    /\ isAuthenticated(a) <=> (a.session.present /\ a.user # Null)

\* the user signed out while a pass that began signed in is in its loop
C30_Witness ==
  /\ ~api.session.present
  /\ \E p \in Passes : pass[p].pc = "loop"

\* C31: logout() always returns success and leaves session and user null,
\* so that isAuthenticated() is false afterwards, whether the remote
\* signOut succeeds, returns an error or throws.  At every step in which
\* the background completes a LOGOUT: whatever signOut does the result is
\* a success, and the client is left without session and user.
C31_LogoutAlwaysClears ==
  [][MessageLogout
       => /\ \A signOut \in SignOutOutcomes :
               /\ logout(api, signOut).success
               /\ logout(api, signOut).api = api'
          /\ ~api'.session.present
          /\ api'.user = Null
          /\ ~isAuthenticated(api')]_vars

\* nobody is signed in while a pass that began signed in is between the
\* read and the write of a removal
C31_Witness ==
  /\ ~isAuthenticated(api)
  /\ \E p \in Passes : pass[p].pc = "rm_set"

\* the step handleMessage takes for a message of the given type: for the
\* types that start a pass, the step up to the handler's first await
handleMessage(type) ==
  CASE type = "GET_AUTH_STATUS" -> MessageGetAuthStatus
    [] type = "LOGOUT" -> MessageLogout
    [] type = "BOOKMARK_SAVED" -> \E p \in Passes : MessageBookmarkSaved(p)
    [] type = "GET_CURRENT_TAB" -> MessageGetCurrentTab
    [] type = "PROCESS_OFFLINE_QUEUE" ->
         \E p \in Passes, ok \in BOOLEAN : MessageProcessQueue(p, ok)
    [] OTHER -> MessageUnknown

\* handling a message of this type changes something
ChangesState(type) == handleMessage(type) /\ vars' # vars

\* C32: handleMessage answers a message of a type it has no case for with
\* the 'Unknown message type' error result and changes no queue, session or
\* badge state; GET_AUTH_STATUS and GET_CURRENT_TAB change no state either.
\* In every state, no step of handleMessage for such a message leads to a
\* different state.
C32_UnknownMessageNoEffect ==
  /\ \A type \in MessageTypes \ KnownTypes :
       /\ \A tab \in {Null, "tab1"} :
            handleMessageResponse(type, api, tab)
              = [error |-> "Unknown message type"]
       /\ ~ENABLED ChangesState(type)
  /\ ~ENABLED ChangesState("GET_AUTH_STATUS")
  /\ ~ENABLED ChangesState("GET_CURRENT_TAB")

\* a signed-in background with two entries queued and a pass that has
\* delivered the first: state a message would have to leave alone
C32_Witness ==
  /\ isAuthenticated(api)
  /\ Len(queue) = 2
  /\ \E p \in Passes : pass[p].pc = "rm_set" /\ pass[p].i = 1

\* a context-menu click is handled and something changes
ContextClickActs ==
  /\ \E s \in Savers, t \in Titles, o \in FetchOutcomes, ok \in BOOLEAN :
       ContextMenuClick(s, t, o, ok)
  /\ vars' # vars

\* C33: a context-menu click while the user is not authenticated shows the
\* sign-in notification and does nothing else: no request goes to the
\* remote, addToOfflineQueue is not called, and no step of the handler
\* changes the queue or anything else.
C33_UnauthClickOnlyNotifies ==
  ~isAuthenticated(api)
    => /\ \A o \in FetchOutcomes :
            handleContextMenuClick(api, o)
              = [shown |-> "Please sign in to Turbodoc first",
                 remote |-> FALSE, add |-> FALSE]
       /\ ~ENABLED ContextClickActs

\* nobody is signed in, the browser is online, no handler is running, and
\* an entry queued from the popup waits in the store
C33_Witness ==
  /\ ~isAuthenticated(api)
  /\ online
  /\ \A s \in Savers : saver[s].pc = "idle"
  /\ Len(queue) > 0

\* execution p receives a success response for the entry it submitted
Accepts(p) ==
  /\ Replays(p)
  /\ pass'[p].results[Len(pass'[p].results)]

\* C34: if every success response reaches the reconciler and every removal
\* succeeds, each queued entry is accepted by the remote service exactly
\* once, under any overlap of triggers: no replay is accepted for an entry
\* of which a replay has been accepted before.
C34_AcceptedOnce ==
  [][\A p \in Passes :
       Accepts(p) => pass[p].queue[pass[p].i] \notin accepted]_vars

\* C35: the popup and the context-menu handler tell the user that an item
\* was saved only if the payload was accepted by the remote service or was
\* durably appended to the offline queue; a failed addToOfflineQueue never
\* ends in a success display.  Checked for every create a handler may make
\* in the current state and for every addToOfflineQueue that is between
\* its read and its write, with the write working and failing.
C35_SuccessShownOnlyIfSaved ==
  /\ \A a \in ApiStates, o \in FetchOutcomes :
       (Possible(online, o) /\ SaveDisplay(Decision[a, o], TRUE) = "saved")
         => createBookmark(a, o).success
  /\ \A s \in Savers, ok \in BOOLEAN :
       saver[s].pc = "add_set" =>
         LET r == addToOfflineQueue(queue, saver[s].q, saver[s].data,
                                    lastNow, 0, TRUE, ok)
         IN  SaveDisplay("queue", r.success) \in {"saved", "saved offline"}
               => /\ r.success
                  /\ r.stored # <<>>
                  /\ r.stored[Len(r.stored)].data = saver[s].data

\* C36: every queue entry is replayed through the remote operation that
\* originally failed for it: an entry queued from a bookmark save is
\* replayed with createBookmark and an entry queued from a note save with
\* createNote, never the other.
C36_ReplayedBySameOperation ==
  [][\A p \in Passes :
       Replays(p)
         => ReplayOperation(pass[p].queue[pass[p].i])
              = SaveOperation(pass[p].queue[pass[p].i].data)]_vars

\* C37: for one TurbodocBackground instance the message, context-menu,
\* startup and install listeners and the periodic sync timer are each
\* registered at most once, even when init() is invoked again by the
\* browser-startup event while the first init() is still awaiting or after
\* it failed.
C37_ListenersOnce ==
  bg.listeners <= 1 /\ bg.timers <= 1

\* C38: for one TurbodocAPI instance the Supabase client is created and
\* the auth-state-change listener registered at most once, however many
\* init() calls overlap.
C38_ClientOnce ==
  client.clients <= 1 /\ client.authListeners <= 1

\* save handler s has appended an entry to the persisted queue and returns
Enqueues(s) ==
  /\ saver[s].pc = "add_set"
  /\ saver'[s].pc = "idle"
  /\ Len(queue') = Len(queue) + 1

\* C39: whenever the user is authenticated and no operation is in
\* progress, the badge shows the number of entries in the offline queue:
\* every enqueue is followed by a badge update.  When a handler has
\* enqueued an entry and returns, with a signed-in user and no pass
\* running, a badge that showed the queue before shows the queue after.
C39_BadgeFollowsQueue ==
  [][\A s \in Savers :
       (/\ Enqueues(s)
        /\ isAuthenticated(api)
        /\ \A p \in Passes : pass[p].pc = "idle")
         => \A h \in EnqueueHandlers :
              BadgeAfterEnqueue(h, updateBadge(api, queue, TRUE), api, queue')
                = updateBadge(api, queue', TRUE)]_vars

\* the number of replays of execution p that returned success
Successes(p) ==
  Cardinality({k \in 1..Len(pass[p].results) : pass[p].results[k]})

\* C40: at the end of every pass that iterated over a snapshot,
\* processedCount + failedCount equals the number of entries of that
\* snapshot, and processedCount equals the number of entries whose replay
\* returned success.
C40_CountsAddUp ==
  \A p \in Passes :
    (pass[p].pc = "done" /\ Len(pass[p].queue) > 0)
      => /\ pass[p].processedCount + pass[p].failedCount = Len(pass[p].queue)
         /\ pass[p].processedCount = Successes(p)

\* a pass over two entries has ended with the first replay failed and the
\* second delivered
C40_Witness ==
  \E p \in Passes :
    /\ pass[p].pc = "done"
    /\ pass[p].results = <<FALSE, TRUE>>
    /\ pass[p].processedCount = 1
    /\ pass[p].failedCount = 1

====
